---- MODULE Spec2Model ----
(***************************************************************************)
(* Model of src/generator.py: the identifier counters, the three row       *)
(* generators, the three chunked bulk-insert functions and the batch loop  *)
(* of run_generator, with the store session (pyodbc connection) reduced to *)
(* its transaction state: rows executed but not committed (pending) and    *)
(* rows committed (store).                                                 *)
(*                                                                         *)
(* Rows keep the fields the program's control depends on: the identifier   *)
(* and, for orders and payments, the parent reference.  The Faker names,   *)
(* dates and statuses never influence a branch and are left out; the       *)
(* amount of a payment is followed on its own, from draw to SQL literal.   *)
(***************************************************************************)
EXTENDS Integers, Sequences, FiniteSets, TLC

VARIABLES
    entry,                \* entry point exercised: run_generator, batch_insert, generate
    BATCH_SIZE,           \* generator.py:31
    CHUNK_SIZE,           \* generator.py:33
    customer_id_counter,  \* generator.py:39
    order_id_counter,     \* generator.py:40
    payment_id_counter,   \* generator.py:41
    issued,               \* history: identifiers put into rows, per kind, in issue order
    pc,                   \* position of the single thread of control
    result,               \* how the entry point ended: running, returned, raised, interrupted
    batch_number,         \* generator.py:350
    customers,            \* local list of run_generator / argument of batch_insert_customers
    orders,
    payments,
    tbl,                  \* table of the batch_insert_* call in progress, "none" outside
    i,                    \* loop variable of range(0, total, chunk_size)
    submitted,            \* history: chunks handed to cursor.execute in the current call
    failedChunk,          \* history: 1-based index of the chunk whose execute raised, 0 if none
    progress,             \* history: progress lines printed by the current call
    storeBefore,          \* history: the committed rows when the current call began
    pending,              \* rows executed in the open transaction, not yet committed
    store,                \* committed rows, per table
    conn,                 \* none, open, closed
    closeCount,           \* number of conn.close() calls
    log,                  \* summaries printed by run_generator
    last,                 \* last direct generator call: arguments, counters before, outcome
    draw,                 \* value of random.uniform(10.0, 5000.0), in thousandths
    amount,               \* p[4] = round(draw, 2), in hundredths; -1 before it is made
    literal,              \* the text f"{p[4]}" puts into the INSERT statement
    nrows                 \* total = len(rows) of a load call followed by its row counts alone

cfgVars   == <<entry, BATCH_SIZE, CHUNK_SIZE>>
idVars    == <<customer_id_counter, order_id_counter, payment_id_counter, issued>>
rowVars   == <<customers, orders, payments>>
loadVars  == <<tbl, i, submitted, failedChunk, progress, storeBefore>>
txVars    == <<pending, store>>
connVars  == <<conn, closeCount>>
renderVars == <<draw, amount, literal>>
vars == <<cfgVars, idVars, rowVars, loadVars, txVars, connVars,
          pc, result, batch_number, log, last, renderVars, nrows>>

----------------------------------------------------------------------------
(* Bounds of the model *)

MaxBatch == 2      \* BATCH_SIZE ranges over 0..MaxBatch
MaxChunk == 2      \* CHUNK_SIZE ranges over 1..MaxChunk
MaxCycles == 2     \* batch cycles started in one run
MaxIds == 3        \* identifiers issued per kind in one run
MaxLoadRows == 5   \* rows handed to a direct batch_insert_* call
MaxCount == 2      \* count argument of a direct generator call: -1..MaxCount
MaxParent == 2     \* parent bound of a direct generator call: -1..MaxParent

Kinds == {"customers", "orders", "payments"}

FirstId == 1

----------------------------------------------------------------------------
(* Python helpers *)

\* number of iterations of range(count)
RangeLen(count) == IF count > 0 THEN count ELSE 0

Min(a, b) == IF a < b THEN a ELSE b

\* rows[lo : lo + n] with a 0-based offset lo, clipped at the end like a Python slice
Slice(rows, lo, n) == SubSeq(rows, lo + 1, Min(lo + n, Len(rows)))

RECURSIVE Flatten(_)
Flatten(chunks) ==
    IF chunks = <<>> THEN <<>> ELSE Head(chunks) \o Flatten(Tail(chunks))

CeilDiv(a, b) == (a + b - 1) \div b

Ids(rows) == [k \in 1..Len(rows) |-> rows[k].id]

\* variant: the draw made from 0 instead of 1, random.randint(0, hi)
PicksFromZero(count, hi) ==
    IF count >= 1 /\ hi >= 1 THEN [1..count -> 0..hi] ELSE {<<>>}

\* the values random.randint(1, hi) can return, count times over
Picks(count, hi) ==
    IF count >= 1 /\ hi >= 1 THEN [1..count -> 1..hi] ELSE {<<>>}

----------------------------------------------------------------------------
(* Generators, generator.py:185-240.  Each returns the rows built, the       *)
(* counter after the call and whether the call raised.                       *)

\* variant: the counter advanced by two
BumpSkip(ctr) == ctr + 2

\* `customer_id_counter += 1` (and the two like it): lines 197, 216, 238
Bump(ctr) == ctr + 1

\* random.randint(1, hi) raises ValueError on an empty range
RandintRaises(hi) == hi < 1

RECURSIVE generate_customers_loop(_, _, _)
generate_customers_loop(n, ctr, acc) ==
    IF n <= 0
    THEN [rows |-> acc, counter |-> ctr, raised |-> FALSE]
    ELSE generate_customers_loop(n - 1, Bump(ctr), Append(acc, [id |-> ctr]))

\* variant: one iteration too many, range(count + 1)
generate_customers_extra(count, ctr) ==
    generate_customers_loop(RangeLen(count) + 1, ctr, <<>>)

generate_customers(count, ctr) ==
    generate_customers_loop(RangeLen(count), ctr, <<>>)

RECURSIVE generate_orders_loop(_, _, _, _, _)
generate_orders_loop(n, max_customer_id, ctr, acc, picks) ==
    IF n <= 0
    THEN [rows |-> acc, counter |-> ctr, raised |-> FALSE]
    ELSE IF RandintRaises(max_customer_id)
    THEN [rows |-> <<>>, counter |-> ctr, raised |-> TRUE]
    ELSE generate_orders_loop(n - 1, max_customer_id, Bump(ctr),
             Append(acc, [id |-> ctr, customer_id |-> picks[Len(acc) + 1]]), picks)

\* variant: the parent bound validated before the loop, whatever count is
generate_orders_validating(count, max_customer_id, ctr, picks) ==
    IF max_customer_id < 1
    THEN [rows |-> <<>>, counter |-> ctr, raised |-> TRUE]
    ELSE generate_orders_loop(RangeLen(count), max_customer_id, ctr, <<>>, picks)

generate_orders(count, max_customer_id, ctr, picks) ==
    generate_orders_loop(RangeLen(count), max_customer_id, ctr, <<>>, picks)

RECURSIVE generate_payments_loop(_, _, _, _, _)
generate_payments_loop(n, max_order_id, ctr, acc, picks) ==
    IF n <= 0
    THEN [rows |-> acc, counter |-> ctr, raised |-> FALSE]
    ELSE IF RandintRaises(max_order_id)
    THEN [rows |-> <<>>, counter |-> ctr, raised |-> TRUE]
    ELSE generate_payments_loop(n - 1, max_order_id, Bump(ctr),
             Append(acc, [id |-> ctr, order_id |-> picks[Len(acc) + 1]]), picks)

generate_payments(count, max_order_id, ctr, picks) ==
    generate_payments_loop(RangeLen(count), max_order_id, ctr, <<>>, picks)

\* the identifiers a call put into rows, appended to the history of its kind
Issue(kind, g) == [issued EXCEPT ![kind] = @ \o Ids(g.rows)]

NoLiteral == [int |-> 0, frac |-> <<>>]

\* the variables of the amount rendering and of the row counts, not in use
PureIdle == draw = 0 /\ amount = -1 /\ literal = NoLiteral /\ nrows = 0

NoCall == [fn |-> "none", count |-> 0, max |-> 0,
           before |-> <<FirstId, FirstId, FirstId>>, rows |-> <<>>, raised |-> FALSE]

Counters == <<customer_id_counter, order_id_counter, payment_id_counter>>

----------------------------------------------------------------------------
(* Direct calls of the generators, in any order and with any arguments *)

CallGenerateCustomers(count) ==
    /\ entry = "generate"
    /\ customer_id_counter - 1 + RangeLen(count) <= MaxIds
    /\ LET g == generate_customers(count, customer_id_counter) IN
        /\ customer_id_counter' = g.counter
        /\ issued' = Issue("customers", g)
        /\ last' = [fn |-> "generate_customers", count |-> count, max |-> 0,
                    before |-> Counters, rows |-> g.rows, raised |-> g.raised]
    /\ UNCHANGED <<renderVars, nrows, cfgVars, order_id_counter, payment_id_counter, rowVars, loadVars,
                   txVars, connVars, pc, result, batch_number, log>>

CallGenerateOrders(count, max_customer_id) ==
    /\ entry = "generate"
    /\ order_id_counter - 1 + RangeLen(count) <= MaxIds
    /\ \E picks \in Picks(count, max_customer_id) :
        LET g == generate_orders(count, max_customer_id, order_id_counter, picks) IN
        /\ order_id_counter' = g.counter
        /\ issued' = Issue("orders", g)
        /\ last' = [fn |-> "generate_orders", count |-> count, max |-> max_customer_id,
                    before |-> Counters, rows |-> g.rows, raised |-> g.raised]
    /\ UNCHANGED <<renderVars, nrows, cfgVars, customer_id_counter, payment_id_counter, rowVars, loadVars,
                   txVars, connVars, pc, result, batch_number, log>>

CallGeneratePayments(count, max_order_id) ==
    /\ entry = "generate"
    /\ payment_id_counter - 1 + RangeLen(count) <= MaxIds
    /\ \E picks \in Picks(count, max_order_id) :
        LET g == generate_payments(count, max_order_id, payment_id_counter, picks) IN
        /\ payment_id_counter' = g.counter
        /\ issued' = Issue("payments", g)
        /\ last' = [fn |-> "generate_payments", count |-> count, max |-> max_order_id,
                    before |-> Counters, rows |-> g.rows, raised |-> g.raised]
    /\ UNCHANGED <<renderVars, nrows, cfgVars, customer_id_counter, order_id_counter, rowVars, loadVars,
                   txVars, connVars, pc, result, batch_number, log>>

\* module state after import (lines 39-41), nothing called yet
Fresh ==
    /\ customer_id_counter = FirstId
    /\ order_id_counter = FirstId
    /\ payment_id_counter = FirstId
    /\ issued = [k \in Kinds |-> <<>>]
    /\ result = "running"
    /\ batch_number = 0
    /\ customers = <<>> /\ orders = <<>> /\ payments = <<>>
    /\ i = 0 /\ submitted = <<>> /\ failedChunk = 0 /\ progress = <<>>
    /\ pending = <<>>
    /\ store = [k \in Kinds |-> <<>>]
    /\ storeBefore = [k \in Kinds |-> <<>>]
    /\ closeCount = 0
    /\ log = <<>>
    /\ last = NoCall
    /\ PureIdle

InitGen ==
    /\ Fresh
    /\ entry = "generate"
    /\ BATCH_SIZE = 0 /\ CHUNK_SIZE = 1
    /\ pc = "direct"
    /\ tbl = "none"
    /\ conn = "none"

NextGen ==
    \/ \E count \in -1..MaxCount : CallGenerateCustomers(count)
    \/ \E count \in -1..MaxCount, m \in -1..MaxParent : CallGenerateOrders(count, m)
    \/ \E count \in -1..MaxCount, m \in -1..MaxParent : CallGeneratePayments(count, m)

SpecGen == InitGen /\ [][NextGen]_vars

----------------------------------------------------------------------------
(* Store session: the effect of the pyodbc calls on the transaction.  The   *)
(* connection is opened with autocommit off (line 122), so an executed      *)
(* statement stays pending until conn.commit() or conn.rollback().          *)

Tx == [pending |-> pending, store |-> store]

\* variant: every statement committed as it is executed (autocommit)
ExecutedAutocommit(tx, t, chunk) == [tx EXCEPT !.store[t] = @ \o chunk]

\* cursor.execute(sql) returned: lines 256, 286, 316
Executed(tx, t, chunk) == [tx EXCEPT !.pending = @ \o chunk]

\* variant: a commit that drops the executed rows instead of keeping them
CommittedNothing(tx, t) == [pending |-> <<>>, store |-> tx.store]

\* conn.commit() returned: lines 261, 291, 321
Committed(tx, t) == [pending |-> <<>>, store |-> [tx.store EXCEPT ![t] = @ \o tx.pending]]

\* conn.rollback(): lines 263, 293, 323
RolledBack(tx) == [tx EXCEPT !.pending = <<>>]

\* conn.close() with work pending: the driver discards it (line 412)
Closed(tx) == [tx EXCEPT !.pending = <<>>]

----------------------------------------------------------------------------
(* batch_insert_customers / _orders / _payments, generator.py:243-327.      *)
(* The three differ only in the statement text they render.                 *)

Rows(t) ==
    CASE t = "customers" -> customers
      [] t = "orders" -> orders
      [] t = "payments" -> payments
      [] OTHER -> <<>>

\* the step of range(0, total, chunk_size): lines 249, 276, 306
NextOffset(offset, chunk_size) == offset + chunk_size

\* variant: the slice one row short, rows[i:i + chunk_size - 1]
ChunkShort(rows, offset, chunk_size) == Slice(rows, offset, chunk_size - 1)

\* chunk = rows[i:i + chunk_size]: lines 250, 277, 307
Chunk(rows, offset, chunk_size) == Slice(rows, offset, chunk_size)

ProgressEvery == 5000

\* if (i + chunk_size) % 5000 == 0: lines 258, 288, 318
ProgressDue(offset, chunk_size) == (offset + chunk_size) % ProgressEvery = 0

\* min(i + chunk_size, total) / total: lines 259, 289, 319
ProgressLine(offset, chunk_size, total) ==
    [loaded |-> Min(offset + chunk_size, total), total |-> total]

\* variant: the failed statement tried again
PcOnRaiseRetry == "insert"

\* where control goes when execute or commit raises: except Exception, lines 262-265
PcOnRaise == "rollback"

\* variant: payments inserted before orders
NextTablePaymentsFirst(t) ==
    CASE t = "customers" -> "payments"
      [] t = "payments" -> "orders"
      [] OTHER -> "none"

\* the call that follows a batch_insert_* call that returned: lines 371-377
NextTable(t) ==
    CASE t = "customers" -> "orders"
      [] t = "orders" -> "payments"
      [] OTHER -> "none"

BeginInsert(t, committed) ==
    /\ tbl' = t
    /\ storeBefore' = committed
    /\ i' = 0
    /\ submitted' = <<>>
    /\ failedChunk' = 0
    /\ progress' = <<>>

ExecuteOk ==
    /\ pc = "insert"
    /\ i < Len(Rows(tbl))
    /\ LET chunk == Chunk(Rows(tbl), i, CHUNK_SIZE)
           tx == Executed(Tx, tbl, chunk) IN
        /\ pending' = tx.pending
        /\ store' = tx.store
        /\ submitted' = Append(submitted, chunk)
    /\ progress' = IF ProgressDue(i, CHUNK_SIZE)
                   THEN Append(progress, ProgressLine(i, CHUNK_SIZE, Len(Rows(tbl))))
                   ELSE progress
    /\ i' = NextOffset(i, CHUNK_SIZE)
    /\ UNCHANGED <<renderVars, nrows, cfgVars, idVars, rowVars, tbl, failedChunk, storeBefore, connVars,
                   pc, result, batch_number, log, last>>

ExecuteRaises ==
    /\ pc = "insert"
    /\ i < Len(Rows(tbl))
    /\ submitted' = Append(submitted, Chunk(Rows(tbl), i, CHUNK_SIZE))
    /\ failedChunk' = Len(submitted) + 1
    /\ pc' = PcOnRaise
    /\ UNCHANGED <<renderVars, nrows, cfgVars, idVars, rowVars, tbl, i, progress, storeBefore, txVars, connVars,
                   result, batch_number, log, last>>

CommitOk ==
    /\ pc = "insert"
    /\ i >= Len(Rows(tbl))
    /\ LET tx == Committed(Tx, tbl) IN
        /\ pending' = tx.pending
        /\ store' = tx.store
    /\ IF entry = "run_generator"
       THEN /\ result' = result
            /\ IF NextTable(tbl) = "none"
               THEN /\ pc' = "summary"
                    /\ tbl' = "none"
                    /\ UNCHANGED <<i, submitted, failedChunk, progress, storeBefore>>
               ELSE /\ pc' = "insert"
                    /\ BeginInsert(NextTable(tbl), Committed(Tx, tbl).store)
       ELSE /\ pc' = "done"
            /\ result' = "returned"
            /\ UNCHANGED loadVars
    /\ UNCHANGED <<renderVars, nrows, cfgVars, idVars, rowVars, connVars, batch_number, log, last>>

CommitRaises ==
    /\ pc = "insert"
    /\ i >= Len(Rows(tbl))
    /\ pc' = PcOnRaise
    /\ UNCHANGED <<renderVars, nrows, cfgVars, idVars, rowVars, loadVars, txVars, connVars,
                   result, batch_number, log, last>>

\* except Exception: conn.rollback(); print; raise (finally: cursor.close())
Rollback ==
    /\ pc = "rollback"
    /\ LET tx == RolledBack(Tx) IN
        /\ pending' = tx.pending
        /\ store' = tx.store
    /\ IF entry = "run_generator"
       THEN pc' = "except_error" /\ result' = result
       ELSE pc' = "done" /\ result' = "raised"
    /\ UNCHANGED <<renderVars, nrows, cfgVars, idVars, rowVars, loadVars, connVars, batch_number, log, last>>

\* the rows a direct call is given: a batch made by the generator of kind t
Gen(t, count, ctr) ==
    CASE t = "customers" -> generate_customers(count, ctr)
      [] t = "orders" -> generate_orders(count, 1, ctr, [k \in 1..count |-> 1])
      [] t = "payments" -> generate_payments(count, 1, ctr, [k \in 1..count |-> 1])

\* a direct call batch_insert_<t>(conn, rows) on an open session, with or
\* without an earlier batch of the same kind already committed
InitLoad ==
    /\ entry = "batch_insert"
    /\ BATCH_SIZE = 0
    /\ CHUNK_SIZE \in 1..MaxChunk
    /\ result = "running"
    /\ batch_number = 0
    /\ pc = "insert"
    /\ conn = "open" /\ closeCount = 0
    /\ log = <<>> /\ last = NoCall
    /\ PureIdle
    /\ i = 0 /\ submitted = <<>> /\ failedChunk = 0 /\ progress = <<>>
    /\ pending = <<>>
    /\ \E t \in Kinds, earlier \in 0..1, R \in 0..MaxLoadRows :
        LET g0 == Gen(t, earlier, FirstId)
            g == Gen(t, R, g0.counter)
            ctr == [k \in Kinds |-> IF k = t THEN g.counter ELSE FirstId] IN
        /\ tbl = t
        /\ store = [k \in Kinds |-> IF k = t THEN g0.rows ELSE <<>>]
        /\ storeBefore = [k \in Kinds |-> IF k = t THEN g0.rows ELSE <<>>]
        /\ customers = (IF t = "customers" THEN g.rows ELSE <<>>)
        /\ orders = (IF t = "orders" THEN g.rows ELSE <<>>)
        /\ payments = (IF t = "payments" THEN g.rows ELSE <<>>)
        /\ customer_id_counter = ctr["customers"]
        /\ order_id_counter = ctr["orders"]
        /\ payment_id_counter = ctr["payments"]
        /\ issued = [k \in Kinds |-> IF k = t THEN Ids(g0.rows) \o Ids(g.rows) ELSE <<>>]

NextLoad ==
    \/ ExecuteOk
    \/ ExecuteRaises
    \/ CommitOk
    \/ CommitRaises
    \/ Rollback

SpecLoad == InitLoad /\ [][NextLoad]_vars

----------------------------------------------------------------------------
(* run_generator, generator.py:330-413 *)

\* variant: the counters printed as they are, without the - 1
TotalsNextIds == [customers |-> customer_id_counter,
                  orders |-> order_id_counter,
                  payments |-> payment_id_counter]

Totals == [customers |-> customer_id_counter - 1,
           orders |-> order_id_counter - 1,
           payments |-> payment_id_counter - 1]

\* lines 382-391: the batch-completion lines
BatchLine == [ev |-> "batch", batch |-> batch_number, totals |-> Totals]

\* lines 399-407: "Generator stopped by user", batches processed, final counts
FinalLine == [ev |-> "final", batch |-> batch_number, totals |-> Totals]

\* line 409: the error line of `except Exception`
ErrorLine == [ev |-> "error"]

\* what the KeyboardInterrupt handler prints: lines 397-407
OnKeyboardInterrupt == <<FinalLine>>

\* variant: the Exception handler printing the final counts as well
OnExceptionWithTotals == <<ErrorLine, FinalLine>>

\* what the Exception handler prints before re-raising: lines 408-410
OnException == <<ErrorLine>>

\* variant: the next customer identifier passed as the bound
MaxCustomerIdNext == customer_id_counter

\* the bound passed to generate_orders: line 364
MaxCustomerId == customer_id_counter - 1

\* variant: the next order identifier passed as the bound
MaxOrderIdNext == order_id_counter

\* the bound passed to generate_payments: line 367
MaxOrderId == order_id_counter - 1

\* variant: the batch counter started at 1
FirstBatchNumberOne == 0 + 1

\* batch_number = 0: line 350
FirstBatchNumber == 0

\* positions inside the try block of run_generator (lines 352-395)
InTry == {"while", "gen_customers", "gen_orders", "gen_payments",
          "insert", "rollback", "summary", "sleep"}

\* line 341: conn = create_connection()
Connect ==
    /\ pc = "connect"
    /\ conn' = "open"
    /\ pc' = "tables"
    /\ UNCHANGED <<renderVars, nrows, cfgVars, idVars, rowVars, loadVars, txVars, closeCount,
                   result, batch_number, log, last>>

\* create_connection re-raises (lines 126-128): no session exists
ConnectRaises ==
    /\ pc = "connect"
    /\ pc' = "exit"
    /\ result' = "raised"
    /\ UNCHANGED <<renderVars, nrows, cfgVars, idVars, rowVars, loadVars, txVars, connVars,
                   batch_number, log, last>>

\* line 344: create_tables_if_not_exist(conn) returns; line 350: batch_number = 0
Tables ==
    /\ pc = "tables"
    /\ batch_number' = FirstBatchNumber
    /\ pc' = "while"
    /\ UNCHANGED <<renderVars, nrows, cfgVars, idVars, rowVars, loadVars, txVars, connVars,
                   result, log, last>>

\* create_tables_if_not_exist re-raises (lines 178-180); line 344 is outside the try
TablesRaises ==
    /\ pc = "tables"
    /\ pc' = "exit"
    /\ result' = "raised"
    /\ UNCHANGED <<renderVars, nrows, cfgVars, idVars, rowVars, loadVars, txVars, connVars,
                   batch_number, log, last>>

\* Ctrl+C during lines 341-350, outside the try: nothing in run_generator handles it
InterruptOutsideTry ==
    /\ pc = "tables"
    /\ pc' = "exit"
    /\ result' = "interrupted"
    /\ UNCHANGED <<renderVars, nrows, cfgVars, idVars, rowVars, loadVars, txVars, connVars,
                   batch_number, log, last>>

\* lines 353-357
StartBatch ==
    /\ pc = "while"
    /\ batch_number < MaxCycles
    /\ customer_id_counter - 1 + BATCH_SIZE <= MaxIds
    /\ batch_number' = batch_number + 1
    /\ pc' = "gen_customers"
    /\ UNCHANGED <<renderVars, nrows, cfgVars, idVars, rowVars, loadVars, txVars, connVars,
                   result, log, last>>

\* line 361
GenCustomers ==
    /\ pc = "gen_customers"
    /\ LET g == generate_customers(BATCH_SIZE, customer_id_counter) IN
        /\ customers' = g.rows
        /\ customer_id_counter' = g.counter
        /\ issued' = Issue("customers", g)
    /\ pc' = "gen_orders"
    /\ UNCHANGED <<renderVars, nrows, cfgVars, order_id_counter, payment_id_counter, orders, payments,
                   loadVars, txVars, connVars, result, batch_number, log, last>>

\* line 364
GenOrders ==
    /\ pc = "gen_orders"
    /\ \E picks \in Picks(BATCH_SIZE, MaxCustomerId) :
        LET g == generate_orders(BATCH_SIZE, MaxCustomerId,
                                 order_id_counter, picks) IN
        /\ order_id_counter' = g.counter
        /\ issued' = Issue("orders", g)
        /\ IF g.raised
           THEN pc' = "except_error" /\ orders' = orders
           ELSE pc' = "gen_payments" /\ orders' = g.rows
    /\ UNCHANGED <<renderVars, nrows, cfgVars, customer_id_counter, payment_id_counter, customers, payments,
                   loadVars, txVars, connVars, result, batch_number, log, last>>

\* line 367, then the call of line 371
GenPayments ==
    /\ pc = "gen_payments"
    /\ \E picks \in Picks(BATCH_SIZE, MaxOrderId) :
        LET g == generate_payments(BATCH_SIZE, MaxOrderId,
                                   payment_id_counter, picks) IN
        /\ payment_id_counter' = g.counter
        /\ issued' = Issue("payments", g)
        /\ IF g.raised
           THEN pc' = "except_error" /\ payments' = payments /\ UNCHANGED loadVars
           ELSE pc' = "insert" /\ payments' = g.rows /\ BeginInsert("customers", store)
    /\ UNCHANGED <<renderVars, nrows, cfgVars, customer_id_counter, order_id_counter, customers, orders,
                   txVars, connVars, result, batch_number, log, last>>

\* lines 379-392
BatchSummary ==
    /\ pc = "summary"
    /\ log' = Append(log, BatchLine)
    /\ pc' = "sleep"
    /\ UNCHANGED <<renderVars, nrows, cfgVars, idVars, rowVars, loadVars, txVars, connVars,
                   result, batch_number, last>>

\* line 395
Sleep ==
    /\ pc = "sleep"
    /\ pc' = "while"
    /\ UNCHANGED <<renderVars, nrows, cfgVars, idVars, rowVars, loadVars, txVars, connVars,
                   result, batch_number, log, last>>

\* Ctrl+C between two steps of the try block.  Inside batch_insert_* the
\* KeyboardInterrupt passes `except Exception` (it is no Exception), so neither
\* commit nor rollback runs; the finally there closes only the cursor.
Interrupt ==
    /\ entry = "run_generator"
    /\ pc \in InTry
    /\ pc' = "except_kbint"
    /\ UNCHANGED <<renderVars, nrows, cfgVars, idVars, rowVars, loadVars, txVars, connVars,
                   result, batch_number, log, last>>

\* Ctrl+C inside a generator, after n of its BATCH_SIZE iterations: the
\* counter has advanced n times, the partial list is dropped
InterruptInGenerate ==
    /\ pc \in {"gen_customers", "gen_orders", "gen_payments"}
    /\ BATCH_SIZE >= 2
    /\ \E n \in 1..(BATCH_SIZE - 1) :
        \/ /\ pc = "gen_customers"
           /\ LET g == generate_customers(n, customer_id_counter) IN
                /\ customer_id_counter' = g.counter
                /\ issued' = Issue("customers", g)
           /\ UNCHANGED <<order_id_counter, payment_id_counter>>
        \/ /\ pc = "gen_orders"
           /\ \E picks \in Picks(n, MaxCustomerId) :
                LET g == generate_orders(n, MaxCustomerId,
                                         order_id_counter, picks) IN
                /\ order_id_counter' = g.counter
                /\ issued' = Issue("orders", g)
           /\ UNCHANGED <<customer_id_counter, payment_id_counter>>
        \/ /\ pc = "gen_payments"
           /\ \E picks \in Picks(n, MaxOrderId) :
                LET g == generate_payments(n, MaxOrderId,
                                           payment_id_counter, picks) IN
                /\ payment_id_counter' = g.counter
                /\ issued' = Issue("payments", g)
           /\ UNCHANGED <<customer_id_counter, order_id_counter>>
    /\ pc' = "except_kbint"
    /\ UNCHANGED <<renderVars, nrows, cfgVars, rowVars, loadVars, txVars, connVars,
                   result, batch_number, log, last>>

\* lines 397-407; run_generator then returns normally
ExceptKeyboardInterrupt ==
    /\ pc = "except_kbint"
    /\ log' = log \o OnKeyboardInterrupt
    /\ result' = "returned"
    /\ pc' = "finally"
    /\ UNCHANGED <<renderVars, nrows, cfgVars, idVars, rowVars, loadVars, txVars, connVars,
                   batch_number, last>>

\* lines 408-410; the exception leaves run_generator
ExceptException ==
    /\ pc = "except_error"
    /\ log' = log \o OnException
    /\ result' = "raised"
    /\ pc' = "finally"
    /\ UNCHANGED <<renderVars, nrows, cfgVars, idVars, rowVars, loadVars, txVars, connVars,
                   batch_number, last>>

\* lines 411-413
Finally ==
    /\ pc = "finally"
    /\ conn' = "closed"
    /\ closeCount' = closeCount + 1
    /\ LET tx == Closed(Tx) IN
        /\ pending' = tx.pending
        /\ store' = tx.store
    /\ pc' = "exit"
    /\ UNCHANGED <<renderVars, nrows, cfgVars, idVars, rowVars, loadVars, result, batch_number, log, last>>

\* the process at the call of run_generator (line 420)
Init ==
    /\ Fresh
    /\ entry = "run_generator"
    /\ BATCH_SIZE \in 0..MaxBatch
    /\ CHUNK_SIZE \in 1..MaxChunk
    /\ pc = "connect"
    /\ tbl = "none"
    /\ conn = "none"

Next ==
    \/ Connect
    \/ ConnectRaises
    \/ Tables
    \/ TablesRaises
    \/ InterruptOutsideTry
    \/ StartBatch
    \/ GenCustomers
    \/ GenOrders
    \/ GenPayments
    \/ ExecuteOk
    \/ ExecuteRaises
    \/ CommitOk
    \/ CommitRaises
    \/ Rollback
    \/ BatchSummary
    \/ Sleep
    \/ Interrupt
    \/ InterruptInGenerate
    \/ ExceptKeyboardInterrupt
    \/ ExceptException
    \/ Finally

Spec == Init /\ [][Next]_vars

\* every entry point: a run, direct generator calls, a direct load call
InitAll == Init \/ InitGen \/ InitLoad

NextAll == Next \/ NextGen

SpecAll == InitAll /\ [][NextAll]_vars

----------------------------------------------------------------------------
(* The amount of a payment: made at generator.py:234, rendered at line 311 *)

UniformLo == 10      \* random.uniform(10.0, 5000.0)
UniformHi == 5000

MaxDrawWindow == 600 \* thousandths drawn above the lower and below the upper end

\* the values random.uniform can return, in thousandths, near both ends
Draws ==
    (UniformLo * 1000 .. UniformLo * 1000 + MaxDrawWindow)
        \cup (UniformHi * 1000 - MaxDrawWindow .. UniformHi * 1000)

\* round(x, 2) in hundredths; which neighbour a decimal tie goes to depends on
\* the binary value of the float, so both are possible
Round2(x) ==
    LET q == x \div 10
        r == x % 10 IN
    IF r < 5 THEN {q} ELSE IF r > 5 THEN {q + 1} ELSE {q, q + 1}

\* variant: the amount formatted with two fixed decimals, f"{p[4]:.2f}"
FixedLiteral(h) == [int |-> h \div 100, frac |-> <<(h % 100) \div 10, h % 10>>]

\* f"{p[4]}" of a float: the shortest decimal text that reads back as the
\* same float, with at least one fractional digit
FloatLiteral(h) ==
    [int |-> h \div 100,
     frac |-> IF h % 100 = 0 THEN <<0>>
              ELSE IF h % 10 = 0 THEN <<(h % 100) \div 10>>
              ELSE <<(h % 100) \div 10, h % 10>>]

\* line 234
MakeAmount ==
    /\ pc = "uniform"
    /\ amount' \in Round2(draw)
    /\ pc' = "render"
    /\ UNCHANGED <<draw, literal, nrows, cfgVars, idVars, rowVars, loadVars, txVars,
                   connVars, result, batch_number, log, last>>

\* line 311
RenderAmount ==
    /\ pc = "render"
    /\ literal' = FloatLiteral(amount)
    /\ pc' = "rendered"
    /\ UNCHANGED <<draw, amount, nrows, cfgVars, idVars, rowVars, loadVars, txVars,
                   connVars, result, batch_number, log, last>>

\* everything but the entry point, the position and the variables in use
Elsewhere ==
    /\ BATCH_SIZE = 0 /\ CHUNK_SIZE = 1
    /\ customer_id_counter = FirstId
    /\ order_id_counter = FirstId
    /\ payment_id_counter = FirstId
    /\ issued = [k \in Kinds |-> <<>>]
    /\ result = "running"
    /\ batch_number = 0
    /\ customers = <<>> /\ orders = <<>> /\ payments = <<>>
    /\ tbl = "none" /\ submitted = <<>> /\ failedChunk = 0
    /\ pending = <<>>
    /\ store = [k \in Kinds |-> <<>>]
    /\ storeBefore = [k \in Kinds |-> <<>>]
    /\ conn = "none" /\ closeCount = 0
    /\ log = <<>>
    /\ last = NoCall

InitRender ==
    /\ Elsewhere
    /\ entry = "amount"
    /\ pc = "uniform"
    /\ draw \in Draws
    /\ amount = -1
    /\ literal = NoLiteral
    /\ i = 0 /\ progress = <<>> /\ nrows = 0

NextRender ==
    \/ MakeAmount
    \/ RenderAmount

SpecRender == InitRender /\ [][NextRender]_vars

----------------------------------------------------------------------------
(* The loop of a batch_insert_* call whose statements all succeed, followed  *)
(* by its row counts alone (lines 248-259): the progress lines depend on     *)
(* len(rows), chunk_size and i only, not on the rows.                        *)

GridStep == 500       \* row counts and chunk sizes are multiples of GridStep
MaxGridChunk == 12    \* chunk_size ranges over GridStep * (1..MaxGridChunk)
MaxGridRows == 30     \* len(rows) ranges over GridStep * (0..MaxGridRows)

\* one iteration of the for loop: execute returned, lines 250-259
CountExecuteOk ==
    /\ pc = "count_loop"
    /\ i < nrows
    /\ progress' = IF ProgressDue(i, CHUNK_SIZE)
                   THEN Append(progress, ProgressLine(i, CHUNK_SIZE, nrows))
                   ELSE progress
    /\ i' = NextOffset(i, CHUNK_SIZE)
    /\ UNCHANGED <<renderVars, nrows, cfgVars, idVars, rowVars, tbl, submitted,
                   failedChunk, storeBefore, txVars, connVars, pc, result,
                   batch_number, log, last>>

\* the range is exhausted: conn.commit() and return, lines 261-267
CountReturn ==
    /\ pc = "count_loop"
    /\ i >= nrows
    /\ pc' = "count_done"
    /\ result' = "returned"
    /\ UNCHANGED <<renderVars, nrows, cfgVars, idVars, rowVars, loadVars, txVars,
                   connVars, batch_number, log, last>>

InitProgress ==
    /\ entry = "progress"
    /\ pc = "count_loop"
    /\ BATCH_SIZE = 0
    /\ CHUNK_SIZE \in {GridStep * c : c \in 1..MaxGridChunk}
    /\ nrows \in {GridStep * r : r \in 0..MaxGridRows}
    /\ customer_id_counter = FirstId
    /\ order_id_counter = FirstId
    /\ payment_id_counter = FirstId
    /\ issued = [k \in Kinds |-> <<>>]
    /\ result = "running"
    /\ batch_number = 0
    /\ customers = <<>> /\ orders = <<>> /\ payments = <<>>
    /\ tbl = "customers" /\ submitted = <<>> /\ failedChunk = 0
    /\ i = 0 /\ progress = <<>>
    /\ pending = <<>>
    /\ store = [k \in Kinds |-> <<>>]
    /\ storeBefore = [k \in Kinds |-> <<>>]
    /\ conn = "open" /\ closeCount = 0
    /\ log = <<>>
    /\ last = NoCall
    /\ draw = 0 /\ amount = -1 /\ literal = NoLiteral

NextProgress ==
    \/ CountExecuteOk
    \/ CountReturn

SpecProgress == InitProgress /\ [][NextProgress]_vars

----------------------------------------------------------------------------
(* Claims *)

LoadFailed == pc = "done" /\ result = "raised"

LoadReturned == pc = "done" /\ result = "returned"

C2_FailureAbortsCall ==
    failedChunk > 0 =>
        /\ Len(submitted) = failedChunk
        /\ Cardinality({j \in 1..Len(submitted) : submitted[j] = submitted[failedChunk]}) = 1
        /\ submitted[failedChunk] = Chunk(Rows(tbl), (failedChunk - 1) * CHUNK_SIZE, CHUNK_SIZE)
        /\ pc # "insert"
        /\ result # "returned"
        /\ (pc = "done" => result = "raised")

\* the 2nd of 3 chunks failed and the call has raised
C2_Witness ==
    /\ LoadFailed
    /\ failedChunk = 2
    /\ CeilDiv(Len(Rows(tbl)), CHUNK_SIZE) = 3

\* C3: a load call that returned has submitted ceil(R/C) chunks, all of size C
\* but possibly the last, which is not empty and not longer than C, and the
\* chunks in order make up the input rows.
C3_ChunksPartitionRows ==
    LoadReturned =>
        /\ Len(submitted) = CeilDiv(Len(Rows(tbl)), CHUNK_SIZE)
        /\ \A j \in 1..Len(submitted) :
            /\ Len(submitted[j]) >= 1
            /\ Len(submitted[j]) <= CHUNK_SIZE
            /\ (j < Len(submitted) => Len(submitted[j]) = CHUNK_SIZE)
        /\ Flatten(submitted) = Rows(tbl)

\* 3 chunks submitted, the last one shorter than the chunk size
C3_Witness ==
    /\ LoadReturned
    /\ Len(submitted) = 3
    /\ Len(submitted[3]) < CHUNK_SIZE

\* C4: the rows of a generate_orders / generate_payments call reference a
\* parent between 1 and the bound passed to that call.
C4_ParentWithinBound ==
    /\ last.fn = "generate_orders" =>
        \A k \in 1..Len(last.rows) :
            1 <= last.rows[k].customer_id /\ last.rows[k].customer_id <= last.max
    /\ last.fn = "generate_payments" =>
        \A k \in 1..Len(last.rows) :
            1 <= last.rows[k].order_id /\ last.rows[k].order_id <= last.max

\* two orders generated against bound 2, one at each end of the range
C4_Witness ==
    /\ last.fn = "generate_orders"
    /\ last.max = 2
    /\ Len(last.rows) = 2
    /\ last.rows[1].customer_id = 1
    /\ last.rows[2].customer_id = 2

\* C5: the identifiers issued for each kind are 1, 2, 3, ... in issue order.
C5_IdsGapFree ==
    \A k \in Kinds : \A j \in 1..Len(issued[k]) : issued[k][j] = j

\* a run whose load failed in its second cycle, after two payments were issued
C5_Witness ==
    /\ entry = "run_generator"
    /\ batch_number = 2
    /\ result = "raised"
    /\ failedChunk > 0
    /\ Len(issued["payments"]) = 2

\* the position of the called generator's counter in Counters
Own(fn) ==
    CASE fn = "generate_customers" -> 1
      [] fn = "generate_orders" -> 2
      [] fn = "generate_payments" -> 3
      [] OTHER -> 0

Advanced(fn, n) == [k \in 1..3 |-> IF k = Own(fn) THEN last.before[k] + n ELSE last.before[k]]

C8_SessionReleasedOnce ==
    /\ closeCount <= 1
    /\ (conn = "closed") => (pc = "exit")
    /\ (pc = "exit" /\ conn # "none") => (conn = "closed" /\ closeCount = 1)

Stopped == pc = "exit" /\ conn = "closed"

C10_NoOpenTransactionWhenStopped ==
    (log # <<>> /\ log[Len(log)].ev = "final") => pending = <<>>

\* C11: the batch-completion summary of the n-th successful cycle of a run
\* reports batch number n and n * BATCH_SIZE customers, orders and payments.
C11_TotalsAfterNCycles ==
    \A n \in 1..Len(log) :
        log[n].ev = "batch" =>
            /\ log[n].batch = n
            /\ log[n].totals = [customers |-> n * BATCH_SIZE,
                                orders |-> n * BATCH_SIZE,
                                payments |-> n * BATCH_SIZE]

\* the summary of the second successful cycle of a run that generates rows
C11_Witness ==
    /\ BATCH_SIZE >= 1
    /\ Len(log) >= 2
    /\ log[2].ev = "batch"
    /\ Len(store["payments"]) = 2 * BATCH_SIZE

\* C12 as stated: every amount lies in [10.00, 5000.00] and its literal has
\* exactly 2 fractional digits.
C12_TwoFractionalDigits ==
    /\ amount # -1 => (amount >= UniformLo * 100 /\ amount <= UniformHi * 100)
    /\ pc = "rendered" => Len(literal.frac) = 2

LiteralValue ==
    literal.int * 100
        + (IF Len(literal.frac) = 1 THEN literal.frac[1] * 10
           ELSE literal.frac[1] * 10 + literal.frac[2])

\* C12 amended: every amount, in hundredths, lies in [10.00, 5000.00]; its
\* literal denotes the amount and has 2 fractional digits when the hundredths
\* digit is not 0, and 1 fractional digit when it is 0 (10.50 is rendered
\* 10.5, 5000.00 is rendered 5000.0).
C12_ShortestLiteral ==
    /\ amount # -1 => (amount >= UniformLo * 100 /\ amount <= UniformHi * 100)
    /\ pc = "rendered" =>
        /\ Len(literal.frac) \in {1, 2}
        /\ LiteralValue = amount
        /\ (Len(literal.frac) = 2 <=> amount % 10 # 0)

\* 10.50 rendered with one fractional digit
C12_Witness ==
    /\ pc = "rendered"
    /\ amount = 1050
    /\ literal = [int |-> 10, frac |-> <<5>>]

\* rows of a table that exist anywhere in a run: in the list of the current
\* cycle, executed in the open transaction, or committed
Generated(t) ==
    {Rows(t)[k] : k \in 1..Len(Rows(t))}
        \cup {store[t][k] : k \in 1..Len(store[t])}
        \cup (IF tbl = t THEN {pending[k] : k \in 1..Len(pending)} ELSE {})

\* C13: orders are generated when all customers of the cycle have been
\* allocated and none of its orders has, payments when all its orders have and
\* none of its payments has; and no order or payment that exists references a
\* parent identifier outside 1..the parent kind's high-water mark.
C13_ParentsBelowHighWaterMark ==
    /\ pc = "gen_orders" =>
        /\ customer_id_counter - 1 = batch_number * BATCH_SIZE
        /\ order_id_counter - 1 = (batch_number - 1) * BATCH_SIZE
    /\ pc = "gen_payments" =>
        /\ order_id_counter - 1 = batch_number * BATCH_SIZE
        /\ payment_id_counter - 1 = (batch_number - 1) * BATCH_SIZE
    /\ \A o \in Generated("orders") :
        1 <= o.customer_id /\ o.customer_id <= customer_id_counter - 1
    /\ \A p \in Generated("payments") :
        1 <= p.order_id /\ p.order_id <= order_id_counter - 1

\* in the second cycle, an order that references the customer allocated in
\* that cycle and a payment that references that order
C13_Witness ==
    /\ entry = "run_generator"
    /\ batch_number = 2
    /\ pc = "insert"
    /\ \E o \in Generated("orders") :
        o.customer_id = customer_id_counter - 1 /\ o.customer_id > BATCH_SIZE
    /\ \E p \in Generated("payments") :
        p.order_id = order_id_counter - 1 /\ p.order_id > BATCH_SIZE

\* positions from which the run only winds down
Ending == {"rollback", "except_error", "except_kbint", "finally", "exit"}

\* the rows of table t of every cycle so far are committed after the step
AllCommitted(t) == Len(store[t])' = batch_number * BATCH_SIZE /\ pending' = <<>>

\* C14: in a cycle the load of customers starts first, the load of orders
\* only when the customers are committed, the load of payments only when the
\* orders are committed; a statement or commit that raises ends the load, and
\* from then on no load and no cycle is started and nothing more is committed:
\* the run only moves on to its handlers and its exit.
C14_LoadsInOrderUntilFailure ==
    [][/\ tbl' # tbl =>
            \/ tbl = "none" /\ tbl' = "customers" /\ pc = "gen_payments"
            \/ tbl = "customers" /\ tbl' = "orders" /\ AllCommitted("customers")
            \/ tbl = "orders" /\ tbl' = "payments" /\ AllCommitted("orders")
            \/ tbl = "payments" /\ tbl' = "none" /\ AllCommitted("payments")
       /\ (pc = "insert" /\ failedChunk' # failedChunk) => pc' = "rollback"
       /\ pc = "rollback" => pc' \in {"except_error", "except_kbint"}
       /\ pc \in Ending =>
            /\ pc' \in Ending \ {"rollback"}
            /\ tbl' = tbl
            /\ submitted' = submitted
            /\ batch_number' = batch_number
            /\ store' = store
      ]_vars

\* the load of orders failed after the customers were committed; the run has
\* ended and no payment was ever submitted
C14_Witness ==
    /\ entry = "run_generator"
    /\ pc = "exit"
    /\ result = "raised"
    /\ tbl = "orders"
    /\ failedChunk > 0
    /\ store["customers"] # <<>>
    /\ store["orders"] = <<>>
    /\ store["payments"] = <<>>

\* an order of the current cycle has been generated
OrderOfCycleGenerated ==
    /\ entry = "run_generator"
    /\ BATCH_SIZE >= 1
    /\ order_id_counter - 1 > (batch_number - 1) * BATCH_SIZE

\* an order of the current cycle has been submitted to the store
OrderOfCycleSubmitted ==
    /\ entry = "run_generator"
    /\ BATCH_SIZE >= 1
    /\ \/ tbl = "orders" /\ submitted # <<>>
       \/ Len(store["orders"]) > (batch_number - 1) * BATCH_SIZE

\* C15 as stated: once an order of a cycle has been generated, the customers
\* of that cycle are committed in the store.
C15_CustomersLoadedBeforeOrdersGenerated ==
    OrderOfCycleGenerated => Len(store["customers"]) = batch_number * BATCH_SIZE

\* C15 amended: in each batch cycle the customers of that cycle are fully
\* generated before its orders are generated, and fully committed before its
\* orders are loaded; while the orders and payments of a cycle are generated
\* no customer of that cycle is committed yet.
C15_CustomersLoadedBeforeOrdersLoaded ==
    /\ OrderOfCycleGenerated => customer_id_counter - 1 = batch_number * BATCH_SIZE
    /\ OrderOfCycleSubmitted => Len(store["customers"]) = batch_number * BATCH_SIZE
    /\ (entry = "run_generator" /\ pc \in {"gen_orders", "gen_payments"}) =>
        Len(store["customers"]) = (batch_number - 1) * BATCH_SIZE

\* the first chunk of the orders of the second cycle is being loaded
C15_Witness ==
    /\ OrderOfCycleSubmitted
    /\ batch_number = 2
    /\ pc = "insert"
    /\ tbl = "orders"
    /\ Len(store["orders"]) = BATCH_SIZE
    /\ Len(store["customers"]) = 2 * BATCH_SIZE

\* rows submitted so far by the loop followed by its counts
RowsSubmitted == Min(i, nrows)

\* C16: in a load call whose statements succeed, a progress line has been
\* emitted for every 5,000 rows submitted so far, whatever the chunk size, and
\* every line carries the number of rows submitted when it was emitted, which
\* is at most the total.
C16_ProgressEvery5000Rows ==
    entry = "progress" =>
        /\ Len(progress) >= RowsSubmitted \div ProgressEvery
        /\ \A k \in 1..Len(progress) :
            /\ progress[k].total = nrows
            /\ progress[k].loaded <= nrows
            /\ progress[k].loaded <= RowsSubmitted

\* pc values of a cycle between `batch_number += 1` and its batch summary
InCycle == {"gen_customers", "gen_orders", "gen_payments", "insert", "rollback",
            "summary"}

\* cycles that reached their batch summary
CyclesCompleted == Cardinality({k \in 1..Len(log) : log[k].ev = "batch"})

\* the step that opens a cycle: `batch_number += 1`, line 352
OpensCycle == pc = "while" /\ pc' = "gen_customers"

\* C17: the batch number is 1 in the first cycle and goes up by exactly one
\* when a cycle starts generating, whether or not the cycle before succeeded
\* (a failed cycle ends the run); in every step of the k-th cycle started, and
\* in the steps that wind the run down from it, the batch number is k, and the
\* closing summary prints that number.
C17_BatchNumberCountsCyclesStarted ==
    [][entry = "run_generator" =>
        /\ OpensCycle => batch_number' = batch_number + 1
        /\ (~OpensCycle /\ pc \notin {"connect", "tables"}) =>
                batch_number' = batch_number
        /\ pc' \in InCycle => batch_number' = CyclesCompleted' + 1
        /\ pc' \in {"while", "sleep"} => batch_number' = CyclesCompleted'
        /\ \A k \in 1..Len(log') :
                log'[k].ev = "final" => log'[k].batch = batch_number']_vars

C17_Witness ==
    /\ entry = "run_generator"
    /\ pc = "exit"
    /\ batch_number = 2
    /\ CyclesCompleted = 1
    /\ log[Len(log)].ev = "final"

\* the summary line printed last
LastLine == log[Len(log)]

\* the closing summary of a run stopped by Ctrl+C has just been printed
FinalSummaryPrinted ==
    /\ entry = "run_generator"
    /\ pc = "finally"
    /\ log # <<>>
    /\ LastLine.ev = "final"

\* C18: when the run is stopped by Ctrl+C, "Total batches processed" is the
\* number of cycles that completed all three loads: each such cycle has
\* committed its BATCH_SIZE payments, the last statement of its third load.
C18_BatchesProcessedAreCompletedCycles ==
    (FinalSummaryPrinted /\ BATCH_SIZE >= 1) =>
        LastLine.batch * BATCH_SIZE = Len(store["payments"])

\* ids of the rows of a committed table
CommittedIds(t) == {store[t][k].id : k \in 1..Len(store[t])}

\* C19: in every state, also after a failed chunk or an interrupt, every
\* committed order refers to a committed customer and every committed payment
\* to a committed order.
C19_CommittedReferencesResolve ==
    entry = "run_generator" =>
        /\ \A k \in 1..Len(store["orders"]) :
                store["orders"][k].customer_id \in CommittedIds("customers")
        /\ \A k \in 1..Len(store["payments"]) :
                store["payments"][k].order_id \in CommittedIds("orders")

C19_Witness ==
    /\ entry = "run_generator"
    /\ pc = "exit"
    /\ \E k \in 1..Len(log) : log[k].ev = "error"
    /\ Len(store["payments"]) >= 1
    /\ Len(store["orders"]) > Len(store["payments"])
    /\ Len(store["customers"]) = Len(store["orders"])

\* a batch summary or the closing summary has just been printed
SummaryPrinted ==
    /\ entry = "run_generator"
    /\ pc \in {"sleep", "finally"}
    /\ log # <<>>
    /\ LastLine.ev \in {"batch", "final"}

\* C20: the totals of a batch summary ("Total inserted") and of the closing
\* summary of a run stopped by Ctrl+C ("Final counts") are, per kind, the
\* number of rows committed when the summary is printed.
C20_ReportedTotalsAreCommittedRows ==
    SummaryPrinted => \A k \in Kinds : LastLine.totals[k] = Len(store[k])

====
